---- MODULE Spec2Model ----
(***************************************************************************)
(* Model of vlrx (src/main.rs, src/lib.rs): the event crawler              *)
(* (scrape_url / parse_event), the match extractor (parse_matches) and the *)
(* composition analyzer (analyze_meta).                                    *)
(*                                                                         *)
(* Spec      : the crawl, one action per step between suspension points.   *)
(* SpecParse : parse_matches applied to bounded game tabs.                 *)
(* SpecMeta  : analyze_meta applied to bounded datasets.                   *)
(***************************************************************************)
EXTENDS Integers, Sequences, FiniteSets, TLC

VARIABLES
    \* ---- the site (source content, fixed during one crawl)
    rootDoc,      \* the event root document: [brackets, subnav]
    pageBr,       \* sub-navigation href -> bracket items of the page there
    \* ---- scrape_url / parse_event
    pc,           \* position of the crawl
    caller,       \* which call of parse_event is running: "root" | "sub"
    doc,          \* bracket items of the document parse_event walks
    i,            \* index of the bracket item parse_event is at
    res_matches,  \* parse_event's accumulator
    series_page,  \* body of the series page just fetched
    matches,      \* scrape_url's accumulator
    event_pages,  \* scrape_url's list of sub-navigation hrefs
    j,            \* index of the sub-navigation page scrape_url is at
    output,       \* the written dataset, NotWritten until File::write_all
    log,          \* network-visible history: fetches and delays, in order
    \* ---- parse_matches
    series_doc,   \* the .vm-stats-game fragments of the page given to parse_matches
    emitted,      \* what parse_matches returned for it
    \* ---- analyze_meta
    dataset,      \* the Vec<Match> handed to analyze_meta
    query,        \* the requested map name
    iterSeed,     \* which HashMap iteration order the run of analyze_meta took
    meta,         \* the result of analyze_meta(dataset, query)
    twin_meta     \* its result on the dataset with every roster reversed

crawlVars == <<rootDoc, pageBr, pc, caller, doc, i, res_matches, series_page,
               matches, event_pages, j, output, log>>
parseVars == <<series_doc, emitted>>
metaVars  == <<dataset, query, iterSeed, meta, twin_meta>>
vars      == <<crawlVars, parseVars, metaVars>>

----------------------------------------------------------------------------
\* Bounds of the model
MaxItems == 2      \* bracket items per event page
MaxNav   == 2      \* sub-navigation items of the root page
MaxTeams == 3      \* .team fragments of a game header
MaxRows  == 2      \* rows of a roster table
MaxMatches == 2    \* matches of a dataset given to analyze_meta

\* Sequences over S of length at most n
BoundedSeq(S, n) == UNION {[1..k -> S] : k \in 0..n}

RECURSIVE Concat(_)
Concat(ss) == IF ss = <<>> THEN <<>> ELSE Head(ss) \o Concat(Tail(ss))

----------------------------------------------------------------------------
\* ---- The site

NotWritten == "NotWritten"

\* hrefs are sequences of path tokens
RootUrl   == <<"vlr.gg", "event">>
SeriesA   == <<"s1">>
SeriesB   == <<"s2">>
PageA     == <<"event", "groups">>
PageB     == <<"event", "playoffs">>
PageShow  == <<"event", "showmatch">>

\* str::contains on an href
Contains(href, needle) == \E k \in 1..Len(href) : href[k] = needle

\* format!("https://vlr.gg{}", e) and format!("https://www.vlr.gg{}", series_url)
SubnavUrl(href) == <<"vlr.gg">> \o href
SeriesUrl(href) == <<"www.vlr.gg">> \o href

\* a.bracket-item elements: with an href attribute (LinkedElems) or without
LinkedElems ==
    {[hasHref |-> TRUE, href |-> SeriesA], [hasHref |-> TRUE, href |-> SeriesB]}
BracketElems == LinkedElems \cup {[hasHref |-> FALSE, href |-> <<>>]}

\* .wf-subnav-item elements: active tab or not, with or without href
SubnavElems ==
    {[active |-> FALSE, hasHref |-> TRUE, href |-> PageA],
     [active |-> FALSE, hasHref |-> TRUE, href |-> PageB],
     [active |-> FALSE, hasHref |-> TRUE, href |-> PageShow],
     [active |-> TRUE,  hasHref |-> TRUE, href |-> PageA],
     [active |-> FALSE, hasHref |-> FALSE, href |-> <<>>]}

\* the bracket items of the page at PageB (those of the page at PageA vary)
PageBItems == <<[hasHref |-> TRUE, href |-> SeriesB]>>

\* the bracket items of the sub-navigation page at href; the page of a
\* "showmatch" link carries none
PageDoc(href) == IF href \in DOMAIN pageBr THEN pageBr[href] ELSE <<>>

\* what parse_matches yields for a well-formed series page
SeriesMatches(href) ==
    IF href = SeriesA THEN <<"m1", "m2">> ELSE <<"m3">>

\* ---- Outcomes of one network fetch (reqwest::get(..).await?.text().await?)
\* "err": the transport fails; otherwise the text body arrives.  A series
\* body is well formed ("ok"), has a non-numeric score ("badscore": parse_matches
\* returns Err) or lacks an expected element ("malformed": an unwrap panics).
PageResponses   == {"err", "ok"}
SeriesResponses == {"err", "ok", "badscore", "malformed"}

Fetch(url, resp) == [op |-> "fetch", url |-> url, ok |-> (resp # "err")]
Sleep == [op |-> "sleep", url |-> <<>>, ok |-> TRUE]

\* the crawl has ended without a result: Err returned to main, or a panic
Stopped == {"failed", "panicked"}

\* (mutation of AfterFetch: the error of a fetch is swallowed)
AfterFetchIgnored(resp, next) == next

\* where the `?` after a fetch takes the crawl
AfterFetch(resp, next) == IF resp = "err" THEN "failed" ELSE next

\* parse_matches(&series_page)? on the fetched body
AfterParse(body) ==
    CASE body = "ok"        -> "sleepSeries"
      [] body = "badscore"  -> "failed"
      [] OTHER              -> "panicked"

\* .wf-subnav-item:not(.mod-active)
SubnavSelected(nav) == SelectSeq(nav, LAMBDA e : ~e.active)

\* (mutation of KeepHref: the "showmatch" test is missing)
KeepHrefAny(e) == TRUE

\* the filter_map of scrape_url: drop hrefs containing "showmatch"
KeepHref(e) == ~Contains(e.href, "showmatch")
EventPages(nav) ==
    LET sel  == SubnavSelected(nav)
        kept == SelectSeq(sel, KeepHref)
    IN  [k \in 1..Len(kept) |-> kept[k].href]

\* (mutation of Extend: the new matches are put in front)
ExtendFront(acc, more) == more \o acc

\* matches.extend(parse_event(&doc).await?)
Extend(acc, more) == acc \o more

----------------------------------------------------------------------------
\* ---- scrape_url / parse_event, step by step

NotParsed == [status |-> "none", matches |-> <<>>]
NoParse == /\ series_doc = <<>> /\ emitted = NotParsed
NotRun  == [done |-> FALSE, res |-> <<>>]
NoMeta  == /\ dataset = <<>> /\ query = "none" /\ iterSeed = "none"
           /\ meta = NotRun /\ twin_meta = NotRun

Docs == [brackets : BoundedSeq(BracketElems, MaxItems),
         subnav   : BoundedSeq(SubnavElems, MaxNav)]

Init ==
    /\ rootDoc \in Docs
    /\ \E items \in BoundedSeq(LinkedElems, MaxItems) :
         pageBr = (PageA :> items) @@ (PageB :> PageBItems)
    /\ pc = "start"
    /\ caller = "root"
    /\ doc = <<>>
    /\ i = 1
    /\ res_matches = <<>>
    /\ series_page = "none"
    /\ matches = <<>>
    /\ event_pages = <<>>
    /\ j = 1
    /\ output = NotWritten
    /\ log = <<>>
    /\ NoParse
    /\ NoMeta

\* main.rs 132-136: the first fetch, of the event root
FetchRoot ==
    /\ pc = "start"
    /\ \E resp \in PageResponses :
         /\ log' = Append(log, Fetch(RootUrl, resp))
         /\ pc' = AfterFetch(resp, "rootFetched")
    /\ UNCHANGED <<rootDoc, pageBr, caller, doc, i, res_matches, series_page,
                   matches, event_pages, j, output, parseVars, metaVars>>

\* main.rs 139-141, 176-178: the delay after the root fetch, then parse_event(&doc)
SleepRoot ==
    /\ pc = "rootFetched"
    /\ log' = Append(log, Sleep)
    /\ doc' = rootDoc.brackets
    /\ caller' = "root"
    /\ i' = 1
    /\ res_matches' = <<>>
    /\ pc' = "loop"
    /\ UNCHANGED <<rootDoc, pageBr, series_page, matches, event_pages, j,
                   output, parseVars, metaVars>>

\* main.rs 180: a bracket item without href: expect() panics
BracketPanic ==
    /\ pc = "loop"
    /\ i <= Len(doc)
    /\ ~doc[i].hasHref
    /\ pc' = "panicked"
    /\ UNCHANGED <<rootDoc, pageBr, caller, doc, i, res_matches, series_page,
                   matches, event_pages, j, output, log, parseVars, metaVars>>

\* main.rs 183-186: fetch the series page of bracket item i
FetchSeries ==
    /\ pc = "loop"
    /\ i <= Len(doc)
    /\ doc[i].hasHref
    /\ \E resp \in SeriesResponses :
         /\ log' = Append(log, Fetch(SeriesUrl(doc[i].href), resp))
         /\ series_page' = resp
         /\ pc' = AfterFetch(resp, "fetched")
    /\ UNCHANGED <<rootDoc, pageBr, caller, doc, i, res_matches, matches,
                   event_pages, j, output, parseVars, metaVars>>

\* main.rs 187: res_matches.extend(parse_matches(&series_page)?)
ParseSeries ==
    /\ pc = "fetched"
    /\ pc' = AfterParse(series_page)
    /\ res_matches' = IF series_page = "ok"
                      THEN Extend(res_matches, SeriesMatches(doc[i].href))
                      ELSE res_matches
    /\ UNCHANGED <<rootDoc, pageBr, caller, doc, i, series_page, matches,
                   event_pages, j, output, log, parseVars, metaVars>>

\* main.rs 188: the delay that ends one turn of parse_event's loop
SleepSeries ==
    /\ pc = "sleepSeries"
    /\ log' = Append(log, Sleep)
    /\ i' = i + 1
    /\ pc' = "loop"
    /\ UNCHANGED <<rootDoc, pageBr, caller, doc, res_matches, series_page,
                   matches, event_pages, j, output, parseVars, metaVars>>

\* main.rs 190, 141, 167: parse_event returns, scrape_url takes its matches
ParseEventReturn ==
    /\ pc = "loop"
    /\ i > Len(doc)
    /\ matches' = Extend(matches, res_matches)
    /\ IF caller = "root"
       THEN pc' = "select" /\ j' = j
       ELSE pc' = "navLoop" /\ j' = j + 1
    /\ UNCHANGED <<rootDoc, pageBr, caller, doc, i, res_matches, series_page,
                   event_pages, output, log, parseVars, metaVars>>

\* main.rs 144-155: collect the sub-navigation hrefs of the root document
SelectSubnav ==
    /\ pc = "select"
    /\ LET sel == SubnavSelected(rootDoc.subnav) IN
         IF \E k \in 1..Len(sel) : ~sel[k].hasHref
         THEN /\ pc' = "panicked"
              /\ UNCHANGED <<event_pages, j>>
         ELSE /\ event_pages' = EventPages(rootDoc.subnav)
              /\ j' = 1
              /\ pc' = "navLoop"
    /\ UNCHANGED <<rootDoc, pageBr, caller, doc, i, res_matches, series_page,
                   matches, output, log, parseVars, metaVars>>

\* main.rs 159: the delay before a sub-navigation fetch
SleepNav ==
    /\ pc = "navLoop"
    /\ j <= Len(event_pages)
    /\ log' = Append(log, Sleep)
    /\ pc' = "navFetch"
    /\ UNCHANGED <<rootDoc, pageBr, caller, doc, i, res_matches, series_page,
                   matches, event_pages, j, output, parseVars, metaVars>>

\* main.rs 160-167, 176-178: fetch sub-navigation page j, then parse_event(&doc)
FetchSubnav ==
    /\ pc = "navFetch"
    /\ \E resp \in PageResponses :
         /\ log' = Append(log, Fetch(SubnavUrl(event_pages[j]), resp))
         /\ pc' = AfterFetch(resp, "loop")
         /\ IF resp = "err"
            THEN UNCHANGED <<doc, caller, i, res_matches>>
            ELSE /\ doc' = PageDoc(event_pages[j])
                 /\ caller' = "sub"
                 /\ i' = 1
                 /\ res_matches' = <<>>
    /\ UNCHANGED <<rootDoc, pageBr, series_page, matches, event_pages, j,
                   output, parseVars, metaVars>>

\* main.rs 169-172: serialize and write the dataset (File::create may fail)
WriteOutput ==
    /\ pc = "navLoop"
    /\ j > Len(event_pages)
    /\ \E ok \in BOOLEAN :
         IF ok THEN output' = matches /\ pc' = "done"
               ELSE output' = output /\ pc' = "failed"
    /\ UNCHANGED <<rootDoc, pageBr, caller, doc, i, res_matches, series_page,
                   matches, event_pages, j, log, parseVars, metaVars>>

Next ==
    \/ FetchRoot
    \/ SleepRoot
    \/ BracketPanic
    \/ FetchSeries
    \/ ParseSeries
    \/ SleepSeries
    \/ ParseEventReturn
    \/ SelectSubnav
    \/ SleepNav
    \/ FetchSubnav
    \/ WriteOutput

Spec == Init /\ [][Next]_vars

----------------------------------------------------------------------------
\* ---- What the site prescribes, stated from the documents alone

FetchLog == SelectSeq(log, LAMBDA e : e.op = "fetch")
FetchUrls == LET fl == FetchLog IN [k \in 1..Len(fl) |-> fl[k].url]

IsPrefix(s, t) == Len(s) <= Len(t) /\ \A k \in 1..Len(s) : s[k] = t[k]

\* a sub-navigation item the crawl is to visit
Eligible(e) == ~e.active /\ e.hasHref /\ ~Contains(e.href, "showmatch")
EligibleItems == SelectSeq(rootDoc.subnav, Eligible)

Linked(brs) == SelectSeq(brs, LAMBDA e : e.hasHref)
SeriesFetchesOf(brs) ==
    LET ln == Linked(brs) IN [k \in 1..Len(ln) |-> <<"www.vlr.gg">> \o ln[k].href]
MatchesOf(brs) ==
    LET ln == Linked(brs) IN Concat([k \in 1..Len(ln) |-> SeriesMatches(ln[k].href)])

\* every page of the event, in document order of discovery
DiscoveredFetches ==
    LET el == EligibleItems IN
    <<RootUrl>> \o SeriesFetchesOf(rootDoc.brackets)
    \o Concat([k \in 1..Len(el) |->
                 <<(<<"vlr.gg">> \o el[k].href)>>
                 \o SeriesFetchesOf(pageBr[el[k].href])])
DiscoveredMatches ==
    LET el == EligibleItems IN
    MatchesOf(rootDoc.brackets)
    \o Concat([k \in 1..Len(el) |-> MatchesOf(pageBr[el[k].href])])

\* number of fetches of the sub-navigation page href so far
NavFetchCount(href) ==
    Cardinality({k \in 1..Len(log) :
                   log[k].op = "fetch" /\ log[k].url = <<"vlr.gg">> \o href})
\* number of eligible sub-navigation items of the root that link to href
EligibleCount(href) ==
    Cardinality({k \in 1..Len(rootDoc.subnav) :
                   Eligible(rootDoc.subnav[k]) /\ rootDoc.subnav[k].href = href})
NavHrefs == {rootDoc.subnav[k].href : k \in 1..Len(rootDoc.subnav)}

----------------------------------------------------------------------------
\* ---- Claims about the crawl (specification Spec)

\* C1: every network fetch other than the first is immediately preceded by a
\* delay since the previous fetch, sub-navigation and series fetches alike,
\* including the first series fetch right after a sub-navigation page.
C1_DelayBeforeEveryFetch ==
    \A k \in 2..Len(log) : log[k].op = "fetch" => log[k - 1].op = "sleep"

\* C2: a failed fetch or a failed extraction stops the crawl at that point:
\* the failed fetch is the last thing the crawl did on the network, it is not
\* retried, the dataset is not written; the dataset is written only after
\* every discovered page was fetched and extracted successfully.
C2_FailureAbortsCrawl ==
    /\ \A k \in 1..Len(log) :
         (log[k].op = "fetch" /\ ~log[k].ok) => (k = Len(log) /\ pc = "failed")
    /\ series_page \in {"badscore", "malformed"} =>
         /\ pc \in {"fetched"} \cup Stopped
         /\ log[Len(log)] = Fetch(<<"www.vlr.gg">> \o doc[i].href, series_page)
    /\ pc \in Stopped => output = NotWritten
    /\ output # NotWritten =>
         /\ pc = "done"
         /\ FetchUrls = DiscoveredFetches
         /\ \A k \in 1..Len(log) : log[k].ok
         /\ series_page \in {"none", "ok"}

\* C2 witness: the crawl failed on a fetch after matches had been accumulated,
\* and nothing was written.
C2_Witness ==
    /\ pc = "failed"
    /\ matches # <<>>
    /\ Len(log) > 0 /\ log[Len(log)].op = "fetch" /\ ~log[Len(log)].ok
    /\ output = NotWritten

\* C3 (as stated): a "showmatch" link and the active tab are never fetched,
\* and once the crawl has ended every other sub-navigation link has been
\* fetched exactly once.
C3_Original ==
    /\ \A h \in NavHrefs : NavFetchCount(h) <= EligibleCount(h)
    /\ pc \in {"done"} \cup Stopped =>
         \A h \in NavHrefs : NavFetchCount(h) = EligibleCount(h)

\* C3 (amended): a sub-navigation link whose target contains "showmatch" and
\* the active tab are never fetched as sub-navigation pages, every other
\* sub-navigation link is fetched at most once, and exactly once in a crawl
\* that runs to completion (reaches the write of the dataset).
C3_SubnavFilter ==
    /\ \A h \in NavHrefs : NavFetchCount(h) <= EligibleCount(h)
    /\ \A k \in 1..Len(rootDoc.subnav) :
         LET e == rootDoc.subnav[k] IN
           (e.hasHref /\ Contains(e.href, "showmatch")) => NavFetchCount(e.href) = 0
    /\ (pc = "done" \/ (pc = "navLoop" /\ j > Len(event_pages))) =>
         \A h \in NavHrefs : NavFetchCount(h) = EligibleCount(h)

\* C3 witness: a completed crawl whose root has a "showmatch" link before an
\* eligible link, the latter fetched once.
C3_Witness ==
    /\ pc = "done"
    /\ Len(rootDoc.subnav) = 2
    /\ rootDoc.subnav[1].href = PageShow
    /\ Eligible(rootDoc.subnav[2])
    /\ NavFetchCount(rootDoc.subnav[2].href) = 1

\* C4: on a successful crawl the dataset is the concatenation of the matches
\* in discovery order (root series first, then each eligible sub-navigation
\* page's series), and at every moment the fetches issued so far are a prefix
\* of the discovery order, all of it once the crawl succeeded.
C4_DiscoveryOrder ==
    /\ IsPrefix(FetchUrls, DiscoveredFetches)
    /\ pc = "done" => /\ output = DiscoveredMatches
                      /\ FetchUrls = DiscoveredFetches

\* C4 witness: a successful crawl over a root with two series and two
\* sub-navigation pages with series of their own.
C4_Witness ==
    /\ pc = "done"
    /\ Len(rootDoc.brackets) = 2
    /\ rootDoc.brackets[1] # rootDoc.brackets[2]
    /\ Len(EligibleItems) = 2
    /\ \A k \in 1..2 : pageBr[EligibleItems[k].href] # <<>>
    /\ Len(output) >= 5

----------------------------------------------------------------------------
\* ---- parse_matches (main.rs 192-324)

\* Absent element or attribute (Option::None)
None == "<none>"

\* str::parse::<u32> on a trimmed text, a sequence of characters.  Score
\* texts have at most 9 digits here, so the value always fits a u32.
DigitVal == [c \in {"0", "1", "2", "3", "4", "5", "6", "7", "8", "9"} |->
               CASE c = "0" -> 0 [] c = "1" -> 1 [] c = "2" -> 2 [] c = "3" -> 3
                 [] c = "4" -> 4 [] c = "5" -> 5 [] c = "6" -> 6 [] c = "7" -> 7
                 [] c = "8" -> 8 [] OTHER -> 9]
RECURSIVE DigitsValue(_)
DigitsValue(txt) ==
    IF txt = <<>> THEN 0
    ELSE 10 * DigitsValue(SubSeq(txt, 1, Len(txt) - 1)) + DigitVal[txt[Len(txt)]]
ParseU32(txt) ==
    IF txt # <<>> /\ (\A k \in 1..Len(txt) : txt[k] \in DOMAIN DigitVal)
       /\ Len(txt) <= 9
    THEN [ok |-> TRUE, val |-> DigitsValue(txt)]
    ELSE [ok |-> FALSE, val |-> 0]

\* .team fragments of a header: the name, whether a .score.mod-win is inside,
\* and the text of the score element
TeamFrags ==
    {[name |-> "A", win |-> TRUE,  score |-> <<"1", "3">>],
     [name |-> "A", win |-> FALSE, score |-> <<"5">>],
     [name |-> "B", win |-> FALSE, score |-> <<"5">>],
     [name |-> "B", win |-> TRUE,  score |-> <<"x">>]}

\* tbody>tr rows of the two roster tables: player name and agent title,
\* either absent
RowFrags1 ==
    {[name |-> "p1", agent |-> "Jett"], [name |-> "p2", agent |-> "Sova"],
     [name |-> None, agent |-> "Jett"]}
RowFrags2 ==
    {[name |-> "p3", agent |-> "Sova"], [name |-> "p4", agent |-> "Jett"],
     [name |-> "p4", agent |-> None]}

\* .vm-stats-game fragments, each with the two roster tables of a game
GameTabs ==
    [gameId : {"1"}, map : {"Ascent"},
     teams  : BoundedSeq(TeamFrags, MaxTeams),
     tables : {<<t1, t2>> : t1 \in BoundedSeq(RowFrags1, MaxRows),
                            t2 \in BoundedSeq(RowFrags2, MaxRows)}]

\* the fragments a second tab of the page is drawn from: the summary tab, a
\* complete game, a game with a row lacking its agent title
SummaryTab ==
    [gameId |-> "all", map |-> "Ascent", teams |-> <<>>, tables |-> <<>>]
PlainTab ==
    [gameId |-> "2", map |-> "Bind",
     teams  |-> <<[name |-> "A", win |-> FALSE, score |-> <<"7">>],
                  [name |-> "B", win |-> TRUE,  score |-> <<"1", "3">>]>>,
     tables |-> << <<[name |-> "p1", agent |-> "Jett"]>>,
                   <<[name |-> "p2", agent |-> "Sova"]>> >>]
BrokenTab ==
    [gameId |-> "3", map |-> "Bind",
     teams  |-> PlainTab.teams,
     tables |-> << <<[name |-> "p1", agent |-> None]>>, <<>> >>]

\* main.rs 196-198: the game tabs parse_matches walks
RealTabs(d) == SelectSeq(d, LAMBDA t : t.gameId # "all")

\* main.rs 222-227: the header loop's variables before the first team
Header0 ==
    [status |-> "ok", team_won |-> "", won_score |-> 0, team_lost |-> "",
     lost_score |-> 0, first_team |-> "", second_team |-> ""]

\* main.rs 228-249: the header loop, teams k..Len(teams)
RECURSIVE HeaderLoop(_, _, _)
HeaderLoop(teams, k, h) ==
    IF k > Len(teams) \/ h.status # "ok" THEN h
    ELSE LET team == teams[k]
             h1 == IF k = 1 THEN [h EXCEPT !.first_team = team.name]
                            ELSE [h EXCEPT !.second_team = team.name]
             sc == ParseU32(team.score)
             h2 == IF ~sc.ok THEN [h1 EXCEPT !.status = "err"]
                   ELSE IF team.win
                        THEN [h1 EXCEPT !.team_won = team.name, !.won_score = sc.val]
                        ELSE [h1 EXCEPT !.team_lost = team.name, !.lost_score = sc.val]
         IN  HeaderLoop(teams, k + 1, h2)

\* (mutation of RowStep: a row without agent title is skipped, not fatal)
RowStepSkipping(acc, team, row) ==
    IF acc.status # "ok" THEN acc
    ELSE IF row.name = None THEN [acc EXCEPT !.status = "panic"]
    ELSE LET tp == IF team \in DOMAIN acc.team_players
                   THEN [acc.team_players EXCEPT ![team] = Append(@, row.name)]
                   ELSE acc.team_players @@ (team :> <<row.name>>)
         IN  IF row.agent = None THEN [acc EXCEPT !.team_players = tp]
             ELSE [acc EXCEPT !.team_players = tp,
                              !.agents = (row.name :> row.agent) @@ acc.agents]

\* main.rs 266-289: one roster row of the table of `team`
RowStep(acc, team, row) ==
    IF acc.status # "ok" THEN acc
    ELSE IF row.name = None THEN [acc EXCEPT !.status = "panic"]
    ELSE LET tp == IF team \in DOMAIN acc.team_players
                   THEN [acc.team_players EXCEPT ![team] = Append(@, row.name)]
                   ELSE acc.team_players @@ (team :> <<row.name>>)
         IN  IF row.agent = None THEN [acc EXCEPT !.status = "panic"]
             ELSE [acc EXCEPT !.team_players = tp,
                              !.agents = (row.name :> row.agent) @@ acc.agents]

RECURSIVE RowLoop(_, _, _, _)
RowLoop(rows, k, team, acc) ==
    IF k > Len(rows) THEN acc
    ELSE RowLoop(rows, k + 1, team, RowStep(acc, team, rows[k]))

\* main.rs 259-290: the roster tables, table 1 for first_team, the others
\* for second_team
RECURSIVE TableLoop(_, _, _, _)
TableLoop(tables, k, h, acc) ==
    IF k > Len(tables) THEN acc
    ELSE TableLoop(tables, k + 1, h,
                   RowLoop(tables[k], 1, IF k = 1 THEN h.first_team ELSE h.second_team, acc))

Rosters0 == [status |-> "ok", agents |-> <<>>, team_players |-> <<>>]

\* main.rs 295-303: the players of the winning and of the losing team
WonPlayers(h, tp) ==
    IF h.team_won \in DOMAIN tp THEN tp[h.team_won] ELSE <<>>
LostPlayers(h, tp) ==
    IF h.team_lost \in DOMAIN tp /\ h.team_lost # h.team_won
    THEN tp[h.team_lost] ELSE <<>>

\* main.rs 199-322: one game tab; [status, match]
ParseTab(t) ==
    LET h == HeaderLoop(t.teams, 1, Header0) IN
    IF h.status # "ok" THEN [status |-> h.status, match |-> None]
    ELSE LET r == TableLoop(t.tables, 1, h, Rosters0) IN
         IF r.status # "ok" THEN [status |-> r.status, match |-> None]
         ELSE [status |-> "ok",
               match |-> [map |-> t.map,
                          team_won  |-> [name |-> h.team_won,
                                         players |-> WonPlayers(h, r.team_players)],
                          team_lost |-> [name |-> h.team_lost,
                                         players |-> LostPlayers(h, r.team_players)],
                          won_score |-> h.won_score,
                          lost_score |-> h.lost_score,
                          agents |-> r.agents]]

\* main.rs 192-324: Ok(matches), Err or a panic; nothing is returned unless Ok
RECURSIVE ParseTabs(_, _, _)
ParseTabs(tabs, k, res) ==
    IF k > Len(tabs) THEN [status |-> "ok", matches |-> res]
    ELSE LET one == ParseTab(tabs[k]) IN
         IF one.status # "ok" THEN [status |-> one.status, matches |-> <<>>]
         ELSE ParseTabs(tabs, k + 1, Append(res, one.match))
parse_matches(d) == ParseTabs(RealTabs(d), 1, <<>>)

NoCrawl ==
    /\ rootDoc = [brackets |-> <<>>, subnav |-> <<>>]
    /\ pageBr = <<>>
    /\ pc = "idle" /\ caller = "root" /\ doc = <<>> /\ i = 1
    /\ res_matches = <<>> /\ series_page = "none" /\ matches = <<>>
    /\ event_pages = <<>> /\ j = 1 /\ output = NotWritten /\ log = <<>>

InitParse ==
    /\ \E t \in GameTabs :
         \/ \E u \in {PlainTab, BrokenTab} : series_doc = <<t, u>>
         \/ series_doc = <<SummaryTab, t>>
    /\ emitted = NotParsed
    /\ NoCrawl
    /\ NoMeta

\* main.rs 187: parse_matches is applied to the page
Parse ==
    /\ emitted = NotParsed
    /\ series_doc # <<>>
    /\ emitted' = parse_matches(series_doc)
    /\ UNCHANGED <<series_doc, crawlVars, metaVars>>

NextParse == Parse

SpecParse == InitParse /\ [][NextParse]_vars

----------------------------------------------------------------------------
\* ---- Claims about parse_matches (specification SpecParse)

Range(f) == {f[x] : x \in DOMAIN f}
RowNames(table) == [k \in 1..Len(table) |-> table[k].name]
Winners(t) == {k \in 1..Len(t.teams) : t.teams[k].win}
\* a row of a real game tab lacks the player name or the agent title
RowIncomplete(d) ==
    \E k \in 1..Len(RealTabs(d)) : \E n \in 1..Len(RealTabs(d)[k].tables) :
        \E r \in 1..Len(RealTabs(d)[k].tables[n]) :
            \/ RealTabs(d)[k].tables[n][r].name = None
            \/ RealTabs(d)[k].tables[n][r].agent = None
\* the header has exactly two teams, exactly one of them marked winner
HeaderRegular(t) == Len(t.teams) = 2 /\ Cardinality(Winners(t)) = 1

\* C6: every emitted Match has an agents entry for every player of team_won
\* and of team_lost; a page with a roster row lacking the player name or the
\* agent title yields no Match at all.
C6_AgentsCoverRosters ==
    /\ \A k \in 1..Len(emitted.matches) :
         LET m == emitted.matches[k] IN
           Range(m.team_won.players) \cup Range(m.team_lost.players)
               \subseteq DOMAIN m.agents
    /\ (emitted.status # "none" /\ RowIncomplete(series_doc)) =>
         (emitted.status \in {"err", "panic"} /\ emitted.matches = <<>>)

\* C6 witness: a page parsed into two matches, the first from a regular
\* header with two different teams and two players on either side.
C6_Witness ==
    /\ emitted.status = "ok"
    /\ Len(emitted.matches) = 2
    /\ HeaderRegular(series_doc[1])
    /\ emitted.matches[1].team_won.name # emitted.matches[1].team_lost.name
    /\ Len(emitted.matches[1].team_won.players) = 2
    /\ Len(emitted.matches[1].team_lost.players) = 2

\* C7: every emitted Match has one of the tab's two header teams as team_won
\* and the other as team_lost; a tab whose header has not exactly two teams
\* with exactly one winner is a fatal error, never a Match.
C7_ExactlyOneWinner ==
    emitted.status = "ok" =>
      \A k \in 1..Len(emitted.matches) :
        LET t == RealTabs(series_doc)[k]
            m == emitted.matches[k]
        IN  /\ HeaderRegular(t)
            /\ \E w \in Winners(t) :
                 /\ m.team_won.name = t.teams[w].name
                 /\ m.team_lost.name = t.teams[3 - w].name

\* C10: in every emitted Match of a tab with two teams, one winner and two
\* roster tables, team_won.players are the rows of the table at the winner's
\* position and team_lost.players the rows of the other table, whatever the
\* two team names are (also when they are equal).
C10_PlayersByPosition ==
    emitted.status = "ok" =>
      \A k \in 1..Len(emitted.matches) :
        LET t == RealTabs(series_doc)[k]
            m == emitted.matches[k]
        IN  (HeaderRegular(t) /\ Len(t.tables) = 2) =>
              \A w \in Winners(t) :
                /\ m.team_won.players = RowNames(t.tables[w])
                /\ m.team_lost.players = RowNames(t.tables[3 - w])

----------------------------------------------------------------------------
\* ---- analyze_meta (main.rs 104-129)

Players == {"p1", "p2", "p3"}
Agents  == {"Jett", "Sova"}
\* lib.rs 27: Agent derives Ord, the order of the names
AgentRank == [a \in Agents |-> IF a = "Jett" THEN 1 ELSE 2]
\* the two iteration orders of a HashMap the model distinguishes: the
\* entries as listed, or the other way round
IterOrders == {"fwd", "rev"}
PlayerList == <<"p1", "p2", "p3">>

Reverse(s) == [k \in 1..Len(s) |-> s[Len(s) + 1 - k]]
Iterate(s, ord) == IF ord = "fwd" THEN s ELSE Reverse(s)

\* insert x into the sorted sequence s, after the elements not greater
\* (stable); rank is a function from the elements to the integers
RECURSIVE InsertBy(_, _, _)
InsertBy(s, x, rank) ==
    IF s = <<>> THEN <<x>>
    ELSE IF rank[Head(s)] <= rank[x] THEN <<Head(s)>> \o InsertBy(Tail(s), x, rank)
    ELSE <<x>> \o s
RECURSIVE SortBy(_, _)
SortBy(s, rank) ==
    IF s = <<>> THEN <<>>
    ELSE InsertBy(SortBy(SubSeq(s, 1, Len(s) - 1), rank), s[Len(s)], rank)

\* (mutation of SortComp: the composition is left in iteration order)
SortCompMissing(comp) == comp

\* main.rs 112, 118: comp.sort()
SortComp(comp) == SortBy(comp, AgentRank)

\* main.rs 107-111, 113-117: the agents of the players of `team`, in the
\* iteration order of m.agents
Comp(m, team, ord) ==
    LET keys == Iterate(SelectSeq(PlayerList, LAMBDA p : p \in DOMAIN m.agents), ord)
        mine == SelectSeq(keys, LAMBDA p : \E k \in 1..Len(team.players) : team.players[k] = p)
    IN  SortComp([k \in 1..Len(mine) |-> m.agents[mine[k]]])

\* main.rs 119-120: map_meta.entry(key).and_modify(|e| *e += 1).or_insert(1)
Bump(tbl, key) ==
    IF \E k \in 1..Len(tbl) : tbl[k].key = key
    THEN [k \in 1..Len(tbl) |->
            IF tbl[k].key = key THEN [tbl[k] EXCEPT !.count = @ + 1] ELSE tbl[k]]
    ELSE Append(tbl, [key |-> key, count |-> 1])

\* main.rs 105-121: the table of (map, composition) counts over all matches
RECURSIVE MapMeta(_, _, _, _)
MapMeta(ms, k, ord, tbl) ==
    IF k > Len(ms) THEN tbl
    ELSE LET m == ms[k]
             t1 == Bump(tbl, [map |-> m.map, comp |-> Comp(m, m.team_won, ord)])
             t2 == Bump(t1,  [map |-> m.map, comp |-> Comp(m, m.team_lost, ord)])
         IN  MapMeta(ms, k + 1, ord, t2)

\* (mutation of OnMap: the filter on the map name is missing)
OnMapAny(name, map) == TRUE

\* main.rs 123, 124: m.name == map
OnMap(name, map) == name = map

\* (mutation of MatchesCnt: the two sides of a match are not counted)
MatchesCntOnce(ms, map) == Len(SelectSeq(ms, LAMBDA m : m.map = map))

\* main.rs 123: spec_map_matches_cnt
MatchesCnt(ms, map) == Len(SelectSeq(ms, LAMBDA m : OnMap(m.map, map))) * 2

\* main.rs 104-129: the (composition, rate) pairs, ascending by rate; a rate
\* is the quotient num / den
analyze_meta(ms, map, ord) ==
    LET tbl  == Iterate(MapMeta(ms, 1, ord, <<>>), ord)
        cnt  == MatchesCnt(ms, map)
        kept == SelectSeq(tbl, LAMBDA e : OnMap(e.key.map, map))
        out  == [k \in 1..Len(kept) |->
                   [comp |-> kept[k].key.comp, num |-> kept[k].count, den |-> cnt]]
    IN  SortBy(out, [e \in {out[k] : k \in 1..Len(out)} |-> e.num])

\* lib.rs 24: agents mappings of a Match
AgentMaps ==
    {[p \in Players |-> IF p = "p2" THEN "Sova" ELSE "Jett"],
     [p \in Players |-> IF p = "p1" THEN "Sova" ELSE "Jett"],
     [p \in Players |-> IF p = "p3" THEN "Sova" ELSE "Jett"]}

\* lib.rs 17-25: a Match of the dataset
Team(name, players) == [name |-> name, players |-> players]
DatasetMatches ==
    {[map |-> mp, team_won |-> Team("A", w), team_lost |-> Team("B", l),
      won_score |-> 13, lost_score |-> 5, agents |-> ag] :
        mp \in {"Bind", "Ascent"},
        w \in {<<"p1", "p2">>, <<"p2", "p1">>},
        l \in {<<"p3">>, <<>>},
        ag \in AgentMaps}
Queries == {"Bind", "Ascent", "Haven"}

\* the dataset with the players of every team in the opposite order
ReverseRosters(ms) ==
    [k \in 1..Len(ms) |->
       [ms[k] EXCEPT !.team_won.players = Reverse(@),
                     !.team_lost.players = Reverse(@)]]

InitMeta ==
    /\ dataset \in BoundedSeq(DatasetMatches, MaxMatches)
    /\ query \in Queries
    /\ iterSeed = "none"
    /\ meta = NotRun
    /\ twin_meta = NotRun
    /\ NoCrawl
    /\ NoParse

\* main.rs 82: analyze_meta(&matches, &map_name)
Analyze ==
    /\ ~meta.done
    /\ \E ord \in IterOrders :
         /\ iterSeed' = ord
         /\ meta' = [done |-> TRUE, res |-> analyze_meta(dataset, query, ord)]
    /\ UNCHANGED <<dataset, query, twin_meta, crawlVars, parseVars>>

\* main.rs 82: analyze_meta on the same matches with their rosters reversed
AnalyzeTwin ==
    /\ meta.done
    /\ ~twin_meta.done
    /\ \E ord \in IterOrders :
         twin_meta' = [done |-> TRUE,
                       res |-> analyze_meta(ReverseRosters(dataset), query, ord)]
    /\ UNCHANGED <<dataset, query, iterSeed, meta, crawlVars, parseVars>>

NextMeta == Analyze \/ AnalyzeTwin

SpecMeta == InitMeta /\ [][NextMeta]_vars

----------------------------------------------------------------------------
\* ---- Claims about analyze_meta (specification SpecMeta)

RECURSIVE SumNum(_)
SumNum(res) == IF res = <<>> THEN 0 ELSE Head(res).num + SumNum(Tail(res))

\* the rates num / den of res add up to exactly 1
RatesSumToOne(res) ==
    /\ res # <<>>
    /\ \A k \in 1..Len(res) : res[k].den = res[1].den /\ res[k].den > 0
    /\ SumNum(res) = res[1].den

\* the matches of the dataset played on the requested map
OnQuery == {k \in 1..Len(dataset) : dataset[k].map = query}
\* one observation: a match on the requested map and one of its two sides
Observations == OnQuery \X {"won", "lost"}
Roster(o) == IF o[2] = "won" THEN dataset[o[1]].team_won.players
                             ELSE dataset[o[1]].team_lost.players
\* how often agent a is fielded in observation o / listed in composition comp
Fielded(o, a) ==
    Cardinality({p \in DOMAIN dataset[o[1]].agents :
                   /\ dataset[o[1]].agents[p] = a
                   /\ \E k \in 1..Len(Roster(o)) : Roster(o)[k] = p})
Listed(comp, a) == Cardinality({k \in 1..Len(comp) : comp[k] = a})
SameAgents(o, comp) == \A a \in Agents : Fielded(o, a) = Listed(comp, a)

\* C5 (as stated): for any dataset and any requested map name the returned
\* rates sum to exactly 1.
C5_Original == meta.done => RatesSumToOne(meta.res)

\* C5 (amended): the occurrence counts of the returned compositions sum to
\* 2 x (number of matches on the requested map); the rates sum to exactly 1
\* whenever at least one match of the dataset is on the requested map, and
\* the result is empty (the rates sum to 0) when none is.
C5_RatesSum ==
    meta.done =>
      /\ SumNum(meta.res) = 2 * Cardinality(OnQuery)
      /\ \A k \in 1..Len(meta.res) : meta.res[k].den = 2 * Cardinality(OnQuery)
      /\ OnQuery # {} => RatesSumToOne(meta.res)
      /\ OnQuery = {} => meta.res = <<>>

\* C5 witness: two matches on the requested map, the result holding several
\* compositions.
C5_Witness ==
    /\ meta.done
    /\ Cardinality(OnQuery) = 2
    /\ Len(meta.res) >= 3

\* C8: every returned entry is a composition observed in a match on the
\* requested map, counted over the matches on that map only; a requested
\* name no match carries yields the empty result.
C8_MapFiltering ==
    meta.done =>
      /\ \A k \in 1..Len(meta.res) :
           /\ \E o \in Observations : SameAgents(o, meta.res[k].comp)
           /\ meta.res[k].num =
                Cardinality({o \in Observations : SameAgents(o, meta.res[k].comp)})
      /\ OnQuery = {} => meta.res = <<>>

\* C8 witness: a dataset with a match on the requested map and a match on
\* another map, analyzed.
C8_Witness ==
    /\ meta.done
    /\ Len(dataset) = 2
    /\ Cardinality(OnQuery) = 1
    /\ meta.res # <<>>

\* C9: the composition key is the agent sequence sorted by name, so
\* observations fielding the same agents share one entry whatever the order
\* of the rosters and of the agents mapping, and reversing every roster
\* leaves the set of (composition, rate) pairs unchanged.
C9_OrderInsensitive ==
    /\ meta.done =>
         /\ \A k \in 1..Len(meta.res) : \A n \in 1..(Len(meta.res[k].comp) - 1) :
              AgentRank[meta.res[k].comp[n]] <= AgentRank[meta.res[k].comp[n + 1]]
         /\ \A o \in Observations :
              Cardinality({k \in 1..Len(meta.res) : SameAgents(o, meta.res[k].comp)}) = 1
    /\ twin_meta.done => Range(twin_meta.res) = Range(meta.res)

\* C9 witness: two matches on the requested map whose winners field Jett and
\* Sova with the rosters and the mapping in opposite orders, counted in one
\* entry, and the reversed dataset analyzed too.
C9_Witness ==
    /\ twin_meta.done
    /\ Len(dataset) = 2
    /\ OnQuery = {1, 2}
    /\ dataset[1].team_won.players = <<"p1", "p2">>
    /\ dataset[2].team_won.players = <<"p2", "p1">>
    /\ dataset[1].agents["p1"] = "Jett" /\ dataset[1].agents["p2"] = "Sova"
    /\ dataset[2].agents["p1"] = "Sova" /\ dataset[2].agents["p2"] = "Jett"
    /\ \E k \in 1..Len(meta.res) :
         meta.res[k].comp = <<"Jett", "Sova">> /\ meta.res[k].num >= 2

====
